---------------------------- MODULE Spec2Model ----------------------------
(***************************************************************************)
(* The HTTP edge gateway of qr-max/server-monitor: an Express application  *)
(* that serves the files of its own directory, proxies /api to the backend,*)
(* and answers / and /health.  Two copies of the gateway exist in the      *)
(* repository: src/unnamed/part_001 (target from BACKEND_URL, onError      *)
(* handler, timeout option) and src/server-monitor/frontend/server.js      *)
(* (hardcoded target, library defaults).  The variable `variant' says      *)
(* which of the two files the process runs.                                *)
(*                                                                         *)
(* A path is the sequence of its segments: / is << >>, /api/status is      *)
(* <<"api", "status">>.  Time is counted in milliseconds.                  *)
(***************************************************************************)
EXTENDS Integers, Sequences, FiniteSets, Bags, TLC

\* ---------------------------------------------------------------- bounds
MaxReqs == 2
MaxTicks == 3

\* ------------------------------------------------------ program constants
DefaultPort == 3000
timeout == 10000
TickMs == timeout \div 2

Variants == {"part_001", "server_js"}

Unset == "<unset>"
BackendUrlValues == {Unset, "http://10.0.0.5:5000"}
PortValues == {Unset, "8080"}

FallbackTarget == "http://192.168.211.149:5000"
HardcodedTarget == "http://backend:5000"

Root == << >>
HealthPath == <<"health">>
ApiStatus == <<"api", "status">>
IndexFile == <<"index.html">>
AppJs == <<"app.js">>
Missing == <<"does-not-exist.xyz">>

\* the requests that reach the gateway: <<method, path>>
Requests ==
    {<<"GET", Root>>, <<"GET", HealthPath>>, <<"GET", ApiStatus>>,
     <<"GET", AppJs>>, <<"GET", Missing>>,
     <<"POST", ApiStatus>>, <<"POST", Root>>,
     <<"OPTIONS", ApiStatus>>, <<"OPTIONS", Missing>>}

\* The files the gateway's directory may hold beside the script itself.
OptionalFiles == {IndexFile, HealthPath, ApiStatus}
AssetDirs == {{AppJs} \cup s : s \in SUBSET OptionalFiles}

VARIABLES
    variant,       \* which of the two gateway files the process runs
    BACKEND_URL,   \* process.env.BACKEND_URL, now
    envPort,       \* process.env.PORT
    startBackend,  \* process.env.BACKEND_URL when the file was loaded
    phase,         \* "binding", "ready" or "exited"
    bound,         \* the listen socket is bound
    exitCode,      \* the exit code, once the process has exited
    startLogged,   \* the listen callback has logged the successful start
    PORT,          \* const PORT
    target,        \* the proxy's target
    assets,        \* the files of __dirname
    clock,         \* the time, in milliseconds since the start
    reqs,          \* the requests received so far
    healthLog      \* the timestamps the health route has returned, in order

vars == <<variant, BACKEND_URL, envPort, startBackend, phase, bound, exitCode,
          startLogged, PORT, target, assets, clock, reqs, healthLog>>


\* ------------------------------------------------------- process startup
\* process.env.X || fallback: an unset variable is falsy
OrDefault(v, d) == IF v = Unset THEN d ELSE v

\* app.listen accepts the decimal string of the environment
PortNumber(s) == IF s = "8080" THEN 8080 ELSE 0

\* const PORT = process.env.PORT || 3000
ResolvePort(ev) == IF ev = Unset THEN DefaultPort ELSE PortNumber(ev)

\* createProxyMiddleware({ target: ... }), evaluated once when the file loads
ResolveTarget(v, backendUrl) ==
    IF v = "part_001" THEN OrDefault(backendUrl, FallbackTarget)
    ELSE HardcodedTarget

\* ------------------------------------------------------------- responses
NoBody == [kind |-> "none", ref |-> << >>, ts |-> 0]
FileBody(f) == [kind |-> "file", ref |-> f, ts |-> 0]
\* { status: 'ok', service: 'frontend', timestamp: new Date().toISOString() }
HealthBody(now) == [kind |-> "json-health", ref |-> <<"ok", "frontend">>, ts |-> now]
\* res.status(500).json({ error: <message> })
ErrorJson == [kind |-> "json-error", ref |-> <<"error">>, ts |-> 0]
\* the proxy library's own text: "Error occurred while trying to proxy ..."
ErrorText == [kind |-> "text", ref |-> <<"proxy-error-text">>, ts |-> 0]
NotFoundHtml == [kind |-> "html-error", ref |-> <<"Not Found">>, ts |-> 0]
UpstreamBody(st) == [kind |-> "upstream", ref |-> <<IF st = 200 THEN "payload" ELSE "unavailable">>, ts |-> 0]

Resp(by, status, body) == [by |-> by, status |-> status, body |-> body]
CallNext == Resp("next", 0, NoBody)

NoHeader == "none"

\* (mutant) cors() is not registered: no header is set
CorsOriginUnset == NoHeader

\* what cors() with no options puts in Access-Control-Allow-Origin
CorsOrigin == "*"

\* --------------------------------------------------- the middleware chain
\* app.use(cors()): a preflight is answered here, anything else goes on
cors(m, p) ==
    IF m = "OPTIONS" THEN Resp("cors-preflight", 204, NoBody) ELSE CallNext

IsDirectory(dir, p) ==
    \E f \in dir : Len(f) > Len(p) /\ SubSeq(f, 1, Len(p)) = p

\* (mutant) another file of the directory is taken for its index
DirectoryIndexOther(p) == p \o AppJs

\* the index document express.static looks for in a directory
DirectoryIndex(p) == p \o IndexFile

\* app.use(express.static(__dirname)): GET of an existing file is answered,
\* a directory is answered by its index.html, everything else falls through
expressStatic(dir, m, p) ==
    IF m # "GET" THEN CallNext
    ELSE IF p \in dir THEN Resp("static", 200, FileBody(p))
    ELSE IF IsDirectory(dir, p) THEN
        IF p = Root
        THEN IF DirectoryIndex(p) \in dir
             THEN Resp("static", 200, FileBody(DirectoryIndex(p)))
             ELSE CallNext
        ELSE Resp("static-redirect", 301, NoBody)
    ELSE CallNext

\* app.use('/api', ...): the mount matches /api and everything below it
MountMatches(p) == Len(p) >= 1 /\ p[1] = "api"

createProxyMiddleware(m, p) ==
    IF MountMatches(p) THEN Resp("forward", 0, NoBody) ELSE CallNext

\* app.get('/', ...): res.sendFile(index.html); a missing file ends in the
\* default error handler, which answers 404
indexRoute(dir, m, p) ==
    IF m = "GET" /\ p = Root
    THEN IF IndexFile \in dir
         THEN Resp("index", 200, FileBody(IndexFile))
         ELSE Resp("index-error", 404, NotFoundHtml)
    ELSE CallNext

\* app.get('/health', ...)
healthRoute(m, p, now) ==
    IF m = "GET" /\ p = HealthPath
    THEN Resp("health", 200, HealthBody(now))
    ELSE CallNext

\* no middleware answered: Express's final handler
finalHandler == Resp("notfound", 404, NotFoundHtml)

\* the handlers in the order the file registers them
Stack(dir, m, p, now) ==
    << cors(m, p),
       expressStatic(dir, m, p),
       createProxyMiddleware(m, p),
       indexRoute(dir, m, p),
       healthRoute(m, p, now),
       finalHandler >>

FirstHandled(s) ==
    s[CHOOSE i \in 1..Len(s) :
        s[i].by # "next" /\ \A j \in 1..(i-1) : s[j].by = "next"]

\* ------------------------------------------------------------- the proxy
\* Express strips the mount path from req.url and keeps req.originalUrl
MountStrip(p) == Tail(p)

\* pathRewrite: { '^/api': '/api' }
pathRewrite(url) ==
    IF Len(url) >= 1 /\ url[1] = "api" THEN <<"api">> \o Tail(url) ELSE url

\* the proxy restores req.originalUrl before it rewrites the path
ProxyPath(originalUrl, url) == pathRewrite(originalUrl)

\* the response to a failed upstream call: part_001 registers onError;
\* server.js registers none, and the proxy library's default handler writes
\* 504 (connection-level codes) or 500 with a plain-text body
onError(v, code) ==
    IF v = "part_001"
    THEN Resp("proxy-error", 500, ErrorJson)
    ELSE Resp("proxy-error",
              IF code \in {"ECONNRESET", "ENOTFOUND", "ECONNREFUSED", "ETIMEDOUT"}
              THEN 504 ELSE 500,
              ErrorText)

\* the proxy copies the upstream's headers over those already set
MergeOrigin(own, upstream) == IF upstream = NoHeader THEN own ELSE upstream

\* the timeout option: only part_001 sets one
HasTimeout(v) == v = "part_001"


\* ----------------------------------------------------------- the requests
\* The requests seen so far are a bag of records: the gateway keeps nothing
\* that tells two equal requests apart.
NewReq(m, p) ==
    [st |-> "received", method |-> m, path |-> p,
     by |-> "none", status |-> 0, body |-> NoBody, acao |-> NoHeader,
     fwd |-> FALSE, upMethod |-> "none", upPath |-> Root, upTarget |-> "none",
     t0 |-> 0, upStatus |-> 0, upBody |-> NoBody, upAcao |-> NoHeader,
     fail |-> "none"]

All == BagToSet(reqs)
Received == {q \in All : q.st = "received"}
Waiting == {q \in All : q.st = "waiting"}
Done == {q \in All : q.st = "done"}

Replace(b, old, new) == (b (-) SetToBag({old})) (+) SetToBag({new})

\* the state after the file has been evaluated and app.listen called, in
\* the environment `backendUrl', `port' and the directory `dir'
Loaded(v, backendUrl, port, dir) ==
    /\ variant = v
    /\ BACKEND_URL = backendUrl
    /\ envPort = port
    /\ startBackend = backendUrl
    /\ phase = "binding"
    /\ bound = FALSE
    /\ exitCode = 0
    /\ startLogged = FALSE
    /\ PORT = ResolvePort(port)
    /\ target = ResolveTarget(v, backendUrl)
    /\ assets = dir
    /\ clock = 0
    /\ reqs = EmptyBag
    /\ healthLog = << >>

\* started with no environment set, over any directory
Init == \E v \in Variants, dir \in AssetDirs : Loaded(v, Unset, Unset, dir)

\* started in any environment, over the directory the image is built with
InitEnv ==
    \E v \in Variants, b \in BackendUrlValues, pt \in PortValues :
        Loaded(v, b, pt, {AppJs, IndexFile})

\* (mutant) the bind error is swallowed and the start reported all the same
ListenIgnoresError(ok) ==
    /\ phase = "binding"
    /\ bound' = ok
    /\ phase' = "ready"
    /\ startLogged' = TRUE
    /\ exitCode' = exitCode
    /\ UNCHANGED <<variant, BACKEND_URL, envPort, startBackend, PORT,
                   target, assets, clock, reqs, healthLog>>

\* app.listen(PORT, '0.0.0.0', callback): the callback runs once the socket
\* is bound; a bind error is an unhandled 'error' event and ends the process
Listen(ok) ==
    /\ phase = "binding"
    /\ bound' = ok
    /\ IF ok
       THEN /\ phase' = "ready"
            /\ startLogged' = TRUE
            /\ exitCode' = exitCode
       ELSE /\ phase' = "exited"
            /\ startLogged' = startLogged
            /\ exitCode' = 1
    /\ UNCHANGED <<variant, BACKEND_URL, envPort, startBackend, PORT,
                   target, assets, clock, reqs, healthLog>>

\* the environment changes after the start
EnvChange(v) ==
    /\ phase # "exited"
    /\ v # BACKEND_URL
    /\ BACKEND_URL' = v
    /\ UNCHANGED <<variant, envPort, startBackend, phase, bound, exitCode, startLogged,
                   PORT, target, assets, clock, reqs, healthLog>>

\* a request reaches the listening socket
Arrive(m, p) ==
    /\ phase = "ready"
    /\ BagCardinality(reqs) < MaxReqs
    /\ reqs' = reqs (+) SetToBag({NewReq(m, p)})
    /\ UNCHANGED <<variant, BACKEND_URL, envPort, startBackend, phase, bound, exitCode,
                   startLogged, PORT, target, assets, clock, healthLog>>

\* (mutant) a proxied call blocks the event loop until it completes
CanDispatchBlocking(q) == phase = "ready" /\ q \in Received /\ Waiting = {}

\* the event loop can run a received request through the chain
CanDispatch(q) == phase = "ready" /\ q \in Received

\* the request runs through the chain: answered at once, or handed to the proxy
Dispatch(q) ==
    /\ CanDispatch(q)
    /\ LET res == FirstHandled(Stack(assets, q.method, q.path, clock))
       IN IF res.by = "forward"
          THEN /\ reqs' = Replace(reqs, q,
                     [q EXCEPT !.st = "waiting", !.fwd = TRUE,
                               !.acao = CorsOrigin,
                               !.upMethod = q.method,
                               !.upPath = ProxyPath(q.path, MountStrip(q.path)),
                               !.upTarget = target,
                               !.t0 = clock])
               /\ healthLog' = healthLog
          ELSE /\ reqs' = Replace(reqs, q,
                     [q EXCEPT !.st = "done", !.by = res.by,
                               !.status = res.status, !.body = res.body,
                               !.acao = CorsOrigin])
               /\ healthLog' = IF res.by = "health"
                               THEN Append(healthLog, res.body.ts)
                               ELSE healthLog
    /\ UNCHANGED <<variant, BACKEND_URL, envPort, startBackend, phase, bound, exitCode,
                   startLogged, PORT, target, assets, clock>>

\* the upstream answers: status, headers and body are piped to the caller
ProxyRes(q, st, origin) ==
    /\ phase = "ready"
    /\ q \in Waiting
    /\ reqs' = Replace(reqs, q,
          [q EXCEPT !.st = "done", !.by = "proxy", !.t0 = 0,
                    !.upStatus = st, !.upBody = UpstreamBody(st),
                    !.upAcao = origin,
                    !.status = st, !.body = UpstreamBody(st),
                    !.acao = MergeOrigin(q.acao, origin)])
    /\ UNCHANGED <<variant, BACKEND_URL, envPort, startBackend, phase, bound, exitCode,
                   startLogged, PORT, target, assets, clock, healthLog>>

\* the upstream call fails: connection refused, reset, ...
ProxyError(q, code) ==
    /\ phase = "ready"
    /\ q \in Waiting
    /\ LET res == onError(variant, code)
       IN reqs' = Replace(reqs, q,
             [q EXCEPT !.st = "done", !.by = res.by, !.fail = code, !.t0 = 0,
                       !.status = res.status, !.body = res.body])
    /\ UNCHANGED <<variant, BACKEND_URL, envPort, startBackend, phase, bound, exitCode,
                   startLogged, PORT, target, assets, clock, healthLog>>

\* timeout: 10000 is the idle timeout of the caller's socket: when it runs
\* out the socket is destroyed, and the caller gets no response
ProxyTimeout(q) ==
    /\ phase = "ready"
    /\ q \in Waiting
    /\ HasTimeout(variant)
    /\ clock - q.t0 >= timeout
    /\ reqs' = Replace(reqs, q,
          [q EXCEPT !.st = "done", !.by = "socket-timeout", !.t0 = 0,
                    !.fail = "timeout", !.acao = NoHeader])
    /\ UNCHANGED <<variant, BACKEND_URL, envPort, startBackend, phase, bound, exitCode,
                   startLogged, PORT, target, assets, clock, healthLog>>

\* time passes; a timer that is due fires before time goes on
Tick ==
    /\ phase = "ready"
    /\ clock < MaxTicks * TickMs
    /\ HasTimeout(variant) => \A q \in Waiting : clock - q.t0 < timeout
    /\ clock' = clock + TickMs
    /\ UNCHANGED <<variant, BACKEND_URL, envPort, startBackend, phase, bound, exitCode,
                   startLogged, PORT, target, assets, reqs, healthLog>>

\* what the upstream may answer: <<status, Access-Control-Allow-Origin>>
UpstreamAnswers == {<<200, NoHeader>>, <<200, "https://ui.example">>, <<503, NoHeader>>}
ErrorCodes == {"ECONNREFUSED", "EPIPE"}

Next ==
    \/ \E ok \in BOOLEAN : Listen(ok)
    \/ \E v \in BackendUrlValues : EnvChange(v)
    \/ \E rq \in Requests : Arrive(rq[1], rq[2])
    \/ \E q \in Received : Dispatch(q)
    \/ \E q \in Waiting, a \in UpstreamAnswers : ProxyRes(q, a[1], a[2])
    \/ \E q \in Waiting, c \in ErrorCodes : ProxyError(q, c)
    \/ \E q \in Waiting : ProxyTimeout(q)
    \/ Tick

Spec == Init /\ [][Next]_vars

SpecEnv == InitEnv /\ [][Next]_vars


\* ================================================================= claims
IsGet(q, p) == q.method = "GET" /\ q.path = p
Answered == {q \in Done : q.status # 0}
NonDecreasing(s) == \A i, j \in 1..Len(s) : i < j => s[i] <= s[j]

\* a request cors() hands on to the routing rules (not a preflight)
Routed(q) == q.method # "OPTIONS"

\* C1 (as claimed, for the requests that reach the routing rules): every
\* request is answered by the highest-ranked rule that matches it, in the
\* order /health probe, /api proxy, index route for /, static file, 404: a
\* file named health never answers GET /health, a file under api/ never
\* answers a request under /api, and a request no rule matches gets 404.
C1_RoutingPrecedence ==
    \A q \in Done :
        Routed(q) =>
            IF IsGet(q, HealthPath) THEN q.by = "health"
            ELSE IF MountMatches(q.path) THEN q.fwd
            ELSE IF IsGet(q, Root)
                 THEN /\ q.status = indexRoute(assets, q.method, q.path).status
                      /\ q.body = indexRoute(assets, q.method, q.path).body
            ELSE IF q.method = "GET" /\ q.path \in assets
                 THEN q.by = "static" /\ q.body = FileBody(q.path)
            ELSE q.status = 404

\* C2 (as claimed): when the upstream call of a request under /api fails
\* (refused, timed out, any other transport failure) the caller receives 500
\* with a JSON body holding the key error, in both gateway files.
C2_UpstreamFailureIs500Json ==
    \A q \in Done :
        q.fail # "none" =>
            /\ q.status = 500
            /\ q.body.kind = "json-error"
            /\ q.body.ref = <<"error">>

\* C3 (as claimed): no proxied request is still pending once the 10 second
\* timeout has passed, and a request that ran into the timeout is answered
\* with the 500 error response.
C3_AnsweredWithinTimeout ==
    /\ \A q \in Waiting : clock - q.t0 <= timeout
    /\ \A q \in Done : q.fail = "timeout" => q.status = 500

\* C4 (as claimed): GET /health always returns 200 with status ok and service
\* frontend, is never forwarded to the upstream, and the timestamps of
\* successive calls do not decrease.
C4_HealthAlwaysOk ==
    /\ \A q \in All : IsGet(q, HealthPath) => ~q.fwd
    /\ \A q \in Done :
          IsGet(q, HealthPath) =>
              /\ q.status = 200
              /\ q.body.kind = "json-health"
              /\ q.body.ref = <<"ok", "frontend">>
    /\ NonDecreasing(healthLog)

\* C5 (as claimed): GET / always returns 200 with exactly the content of
\* index.html, whatever the directory holds.
C5_RootAlwaysIndex ==
    \A q \in Done :
        IsGet(q, Root) => q.status = 200 /\ q.body = FileBody(IndexFile)

\* C5 (amended): when the directory holds index.html, GET / returns 200 with
\* exactly its content, whatever else the directory holds; when it does not,
\* GET / returns 404 and no file.
C5_RootIsIndexWhenPresent ==
    \A q \in Done :
        IsGet(q, Root) =>
            IF IndexFile \in assets
            THEN q.status = 200 /\ q.body = FileBody(IndexFile)
            ELSE q.status = 404 /\ q.body.kind # "file"

\* C5 witness: GET / was answered from a directory that holds index.html and
\* other files as well.
C5_Witness ==
    \E q \in Done :
        /\ IsGet(q, Root)
        /\ q.status = 200
        /\ {IndexFile, HealthPath, ApiStatus, AppJs} \subseteq assets

\* C6 (as claimed): every response the gateway sends carries the permissive
\* cross-origin header, a proxied response whose upstream sets its own
\* header included.
C6_EveryResponsePermissive ==
    \A q \in Answered : q.acao = "*"

\* C6 (amended): every response carries Access-Control-Allow-Origin: *, except
\* a proxied upstream response whose upstream sets the header itself: that one
\* carries the upstream's value.
C6_PermissiveUnlessUpstreamSets ==
    \A q \in Answered :
        q.acao = IF q.by = "proxy" /\ q.upAcao # NoHeader THEN q.upAcao ELSE "*"

\* C6 witness: a proxy-error response and a proxied response whose upstream
\* set its own header have both been sent.
C6_Witness ==
    /\ \E q \in Answered : q.by = "proxy-error" /\ q.acao = "*"
    /\ \E q \in Answered : q.by = "proxy" /\ q.upAcao # NoHeader

\* C7: a GET /health that has arrived can be answered at once, whatever
\* proxied requests are waiting for the upstream: its answer waits for no
\* completion and no timeout of theirs.
C7_HealthNotBlocked ==
    \A q \in Received : IsGet(q, HealthPath) => ENABLED Dispatch(q)

\* C7 witness: GET /health has been answered while a proxied request that was
\* forwarded before is still waiting for the upstream.
C7_Witness ==
    \E h \in Done, w \in Waiting :
        /\ IsGet(h, HealthPath)
        /\ h.by = "health"
        /\ w.t0 < h.body.ts

\* C8 (as claimed, for the requests that reach the routing rules): every
\* request under /api reaches the upstream with its method and its path, and
\* when the upstream answers the caller receives the upstream's status and
\* body.
C8_ProxyTransparency ==
    \A q \in All :
        (Routed(q) /\ MountMatches(q.path)) =>
            /\ q.st # "received" =>
                  q.fwd /\ q.upMethod = q.method /\ q.upPath = q.path
            /\ (q.st = "done" /\ q.fail = "none") =>
                  /\ q.by = "proxy"
                  /\ q.status = q.upStatus
                  /\ q.body = q.upBody

\* C9 (as claimed): the target is BACKEND_URL as set when the process
\* started, the hardcoded address when it was not set, and the same for
\* every proxied request.
C9_TargetFromEnvironment ==
    /\ target = IF startBackend # Unset THEN startBackend
                ELSE IF variant = "part_001" THEN FallbackTarget
                ELSE HardcodedTarget
    /\ \A q \in All : q.fwd => q.upTarget = target

\* C10: the process leaves the binding phase either ready, with the socket
\* bound on PORT (3000 by default) and the start reported, or exited with a
\* non-zero code: after a failed bind it is never ready, never reports a
\* start and never takes a request.
C10_StartupLifecycle ==
    /\ envPort = Unset => PORT = 3000
    /\ envPort = "8080" => PORT = 8080
    /\ phase = "binding" => ~bound /\ ~startLogged
    /\ phase = "ready" => bound /\ startLogged
    /\ phase = "exited" => ~bound /\ exitCode # 0
    /\ ~bound => ~startLogged /\ reqs = EmptyBag

\* C10 witness: the bind has failed and the process has exited.
C10_Witness == phase = "exited" /\ ~bound /\ exitCode = 1

=============================================================================
